---- MODULE Spec2Model ----
(***************************************************************************)
(* Clue-layout extractor of cryptic-crossword-bench                        *)
(* (src/extraction/extract_clues.py).                                      *)
(*                                                                         *)
(* A text is a sequence of character atoms.  An atom is a one-character    *)
(* string (" ", "\n", "(", ")", ",", a digit) or a run of one or more      *)
(* letters ("Cheese"): the pattern of the tokenizer treats every letter    *)
(* alike, so a run of letters stands for its characters.                   *)
(* Coordinates: x0 and page_width are in points, top is in hundredths of   *)
(* a point, a rounded top (a key of lines_dict) is in tenths of a point.   *)
(***************************************************************************)
EXTENDS Bags, FiniteSets, Integers, Sequences, TLC

VARIABLES
    pc,                 \* position in extract_clues_from_pdf / parse_answer_length
    words,              \* page.extract_words()
    page_width,         \* page.width
    left_words,         \* tokens of the left (ACROSS) column
    right_words,        \* tokens of the right (DOWN) column
    lines_dict_across,  \* lines_dict of reconstruct_text(left_words)
    lines_dict_down,    \* lines_dict of reconstruct_text(right_words)
    across_text,        \* reconstruct_text(left_words)
    down_text,          \* reconstruct_text(right_words)
    it,                 \* number of matches the running for loop has consumed
    across_clues,       \* clue map of the across direction
    down_clues,         \* clue map of the down direction
    lengths,            \* a length sequence a caller formats as a length spec
    length_str,         \* argument of a direct call of parse_answer_length
    parsed,             \* result of that call
    raw_lines,          \* page.extract_text().split("\n")
    metadata,           \* metadata of extract_clues_from_pdf
    clues_data,         \* first argument of combine_clues_and_answers
    answers_data,       \* second argument of combine_clues_and_answers
    result,             \* the structure combine_clues_and_answers returns
    model_answer,       \* state.output.completion handed to the scorer
    target_text,        \* target.text handed to the scorer
    normalized_model,   \* normalize_answer(model_answer)
    normalized_target,  \* normalize_answer(target.text)
    correct,            \* value of the Score
    new_result,         \* first argument of find_duplicate
    existing_results,   \* second argument of find_duplicate
    duplicate_idx,      \* what find_duplicate returns
    results_files,      \* the results directory: path of a .jsonl file -> its entries
    call,               \* the arguments of the last save_eval_results call
    returned,           \* what that call returned
    calls,              \* number of save_eval_results calls made
    forced_only,        \* every call so far was made with force=True
    all_results,        \* what load_all_results returns
    deduplicated,       \* what deduplicate_results returns
    benchmark_files,    \* the benchmark files the samples of a log are loaded from
    samples,            \* log.samples handed to extract_dataset_files
    dataset_files       \* what extract_dataset_files returns

\* the variables of the metadata scan, of combine_clues_and_answers, of the
\* scorer and of find_duplicate
metaVars == <<raw_lines, metadata>>
combineVars == <<clues_data, answers_data, result>>
scoreVars == <<model_answer, target_text, normalized_model, normalized_target, correct>>
dupVars == <<new_result, existing_results, duplicate_idx>>
saveVars == <<results_files, call, returned, calls, forced_only>>
buildVars == <<all_results, deduplicated>>
idVars == <<benchmark_files, samples, dataset_files>>
rest == <<saveVars, buildVars, idVars>>
others == <<metaVars, combineVars, scoreVars, dupVars, rest>>

\* the variables of the column split, reconstruct_text and the tokenizer
extractVars == <<words, page_width, left_words, right_words, lines_dict_across,
                 lines_dict_down, across_text, down_text, it, across_clues,
                 down_clues>>
lenVars == <<lengths, length_str, parsed>>

vars == <<pc, extractVars, lenVars, others>>

-----------------------------------------------------------------------------
(* Bounds *)

MaxWords == 3
MaxClues == 2
MaxSegs == 3
MaxLetters == 12

-----------------------------------------------------------------------------
(* Generic helpers *)

None == "None"
ValueError == "ValueError"
NoMatch == "NoMatch"

Range(s) == {s[i] : i \in DOMAIN s}

Min(S) == CHOOSE x \in S : \A y \in S : x <= y
Max(S) == CHOOSE x \in S : \A y \in S : x >= y

RECURSIVE Concat(_)
Concat(ss) == IF ss = <<>> THEN <<>> ELSE Head(ss) \o Concat(Tail(ss))

RECURSIVE SeqToBag(_)
SeqToBag(s) == IF s = <<>> THEN EmptyBag ELSE SetToBag({Head(s)}) (+) SeqToBag(Tail(s))

-----------------------------------------------------------------------------
(* Characters and the str methods the extractor uses *)

DigitSeq == <<"0", "1", "2", "3", "4", "5", "6", "7", "8", "9">>
DigitChars == Range(DigitSeq)
DigitVal(c) == (CHOOSE d \in DOMAIN DigitSeq : DigitSeq[d] = c) - 1

\* one atom for a run of 4301 decimal digits, one more than int() converts
LongDigits == "9{4301}"
MaxStrDigits == 4300
DigitsIn(c) == IF c = LongDigits THEN 4301 ELSE 1

IsDigit(c) == c \in DigitChars \/ c = LongDigits
IsSpace(c) == c \in {" ", "\n", "\t"}
IsDot(c) == c # "\n"

\* str.strip(chars): drop leading and trailing characters that are in chars
strip_chars(s, chars) ==
    LET keep == {i \in DOMAIN s : s[i] \notin chars}
    IN  IF keep = {} THEN <<>> ELSE SubSeq(s, Min(keep), Max(keep))

\* str.strip(): drop leading and trailing whitespace
strip(s) == strip_chars(s, {" ", "\n", "\t"})

\* str.split(sep)
RECURSIVE split(_, _)
split(s, sep) ==
    LET at == {i \in DOMAIN s : s[i] = sep}
    IN  IF at = {} THEN <<s>>
        ELSE <<SubSeq(s, 1, Min(at) - 1)>> \o split(SubSeq(s, Min(at) + 1, Len(s)), sep)

\* sep.join(parts)
RECURSIVE join(_, _)
join(sep, parts) ==
    IF parts = <<>> THEN <<>>
    ELSE IF Len(parts) = 1 THEN parts[1]
    ELSE parts[1] \o <<sep>> \o join(sep, Tail(parts))

RECURSIVE DigitsValue(_)
DigitsValue(s) ==
    IF s = <<>> THEN 0
    ELSE 10 * DigitsValue(SubSeq(s, 1, Len(s) - 1)) + DigitVal(s[Len(s)])

RECURSIVE NumDigits(_)
NumDigits(s) == IF s = <<>> THEN 0 ELSE DigitsIn(Head(s)) + NumDigits(Tail(s))

\* what int() accepts: decimal digits, at most sys.get_int_max_str_digits()
\* of them, surrounding whitespace ignored
IsIntLiteral(s) ==
    LET t == strip(s)
    IN  /\ t # <<>>
        /\ \A i \in DOMAIN t : IsDigit(t[i])
        /\ NumDigits(t) <= MaxStrDigits

\* int(s); anything int() does not accept raises ValueError
int(s) == IF IsIntLiteral(s) THEN DigitsValue(strip(s)) ELSE ValueError

-----------------------------------------------------------------------------
(* parse_answer_length *)

\* variant: the comma case keeps the first segment only
LengthSegments_first(s0) ==
    LET s == strip_chars(s0, {"(", ")"})
    IN  <<strip(split(s, ",")[1])>>

\* the segments the function hands to int()
LengthSegments(s0) ==
    LET s == strip_chars(s0, {"(", ")"})
        parts == split(s, ",")
    IN  IF "," \in Range(s)
        THEN [k \in DOMAIN parts |-> strip(parts[k])]
        ELSE <<s>>

parse_answer_length(s0) ==
    LET segs == LengthSegments(s0)
    IN  IF \E k \in DOMAIN segs : ~IsIntLiteral(segs[k]) THEN ValueError
        ELSE [k \in DOMAIN segs |-> int(segs[k])]

-----------------------------------------------------------------------------
(* The clue pattern  (\d+)\s+(.+?)\s+(\(\d+(?:,\s*\d+)*\))  and re.finditer *)

\* the character classes of the pattern: \d, \s and . (anything but a newline)
InClass(c, cls) ==
    CASE cls = "d" -> IsDigit(c)
      [] cls = "s" -> IsSpace(c)
      [] cls = "." -> IsDot(c)

\* the end (exclusive) of the longest run of cls characters of s that starts at i
RECURSIVE RunEnd(_, _, _)
RunEnd(s, i, cls) ==
    IF i > Len(s) \/ ~InClass(s[i], cls) THEN i ELSE RunEnd(s, i + 1, cls)

\* s matches  \d+(?:,\s*\d+)*  as a whole
IsLengthBody(s) ==
    LET parts == split(s, ",")
        \* \s*\d+ : whitespace, then one or more digits up to the end
        IsSpacedDigits(t) ==
            LET a == RunEnd(t, 1, "s") IN a <= Len(t) /\ RunEnd(t, a, "d") = Len(t) + 1
    IN  /\ parts[1] # <<>>
        /\ RunEnd(parts[1], 1, "d") = Len(parts[1]) + 1
        /\ \A k \in 2..Len(parts) : IsSpacedDigits(parts[k])

\* ends (exclusive) of the matches of group 3, \(\d+(?:,\s*\d+)*\), that start at b
Group3Ends(s, b) ==
    IF b > Len(s) \/ s[b] # "(" THEN {}
    ELSE {e \in (b + 3)..(Len(s) + 1) :
            s[e - 1] = ")" /\ IsLengthBody(SubSeq(s, b + 1, e - 2))}

\* every way the pattern matches s from position i: group 1 is s[i .. d-1],
\* group 2 is s[a .. t-1], group 3 is s[b .. e-1]
Candidates(s, i) ==
    UNION { UNION { UNION { UNION {
        {[start |-> i, g1e |-> d, g2s |-> a, g2e |-> t, g3s |-> b, end |-> e] :
            e \in Group3Ends(s, b)}
        : b \in (t + 1)..RunEnd(s, t, "s") }
        : t \in (a + 1)..RunEnd(s, a, ".") }
        : a \in (d + 1)..RunEnd(s, d, "s") }
        : d \in (i + 1)..RunEnd(s, i, "d") }

\* the backtracking order: \d+ and \s+ are greedy (longest first), .+? is
\* lazy (shortest first)
Before(c, o) ==
    \/ c.g1e > o.g1e
    \/ c.g1e = o.g1e /\ c.g2s > o.g2s
    \/ c.g1e = o.g1e /\ c.g2s = o.g2s /\ c.g2e < o.g2e
    \/ c.g1e = o.g1e /\ c.g2s = o.g2s /\ c.g2e = o.g2e /\ c.g3s > o.g3s
    \/ c.g1e = o.g1e /\ c.g2s = o.g2s /\ c.g2e = o.g2e /\ c.g3s = o.g3s /\ c.end >= o.end

\* the match object of the pattern at position i, or NoMatch
MatchAt(s, i) ==
    LET cands == Candidates(s, i)
    IN  IF cands = {} THEN NoMatch
        ELSE LET c == CHOOSE c \in cands : \A o \in cands : Before(c, o)
             IN  [start |-> c.start,
                  end |-> c.end,
                  group1 |-> SubSeq(s, c.start, c.g1e - 1),
                  group2 |-> SubSeq(s, c.g2s, c.g2e - 1),
                  group3 |-> SubSeq(s, c.g3s, c.end - 1)]

\* variant: the scan resumes one character after the start of a match
RECURSIVE finditer_from_overlapping(_, _)
finditer_from_overlapping(s, pos) ==
    LET starts == {i \in pos..Len(s) : Candidates(s, i) # {}}
    IN  IF starts = {} THEN <<>>
        ELSE LET m == MatchAt(s, Min(starts))
             IN  <<m>> \o finditer_from_overlapping(s, m.start + 1)

\* re.finditer(pattern, s): the non-overlapping matches, scanning left to right
RECURSIVE finditer_from(_, _)
finditer_from(s, pos) ==
    LET starts == {i \in pos..Len(s) : Candidates(s, i) # {}}
    IN  IF starts = {} THEN <<>>
        ELSE LET m == MatchAt(s, Min(starts))
             IN  <<m>> \o finditer_from(s, m.end)

finditer(s) == finditer_from(s, 1)

\* the loop body raises: int(match.group(1)) or parse_answer_length
\* (match.group(3)) ends in a ValueError, which nothing in the function catches
Raises(match) ==
    \/ ~IsIntLiteral(match.group1)
    \/ \E k \in DOMAIN LengthSegments(match.group3) :
            ~IsIntLiteral(LengthSegments(match.group3)[k])

\* variant: group(1) for group(2) as the clue text
ClueRecord_group1(match) ==
    [clue |-> strip(match.group1),
     answer_length |-> parse_answer_length(match.group3),
     answer |-> None]

\* the dict the loop body stores under clue_num
ClueRecord(match) ==
    [clue |-> strip(match.group2),
     answer_length |-> parse_answer_length(match.group3),
     answer |-> None]

\* variant: an existing key keeps its value (setdefault)
Put_keep_first(d, k, v) ==
    [x \in DOMAIN d \cup {k} |-> IF x \in DOMAIN d THEN d[x] ELSE v]

\* d[k] = v
Put(d, k, v) == [x \in DOMAIN d \cup {k} |-> IF x = k THEN v ELSE d[x]]

RECURSIVE Render(_)
Render(s) == IF s = <<>> THEN "" ELSE Head(s) \o Render(Tail(s))

-----------------------------------------------------------------------------
(* Column split and reconstruct_text *)

\* variant: the boundary token counts as left (<= for <)
LeftOfMiddle_le(w, width) == 2 * w.x0 <= width

\* w["x0"] < middle_x, with middle_x = page_width / 2
LeftOfMiddle(w, width) == 2 * w.x0 < width

\* left_words = [w for w in words if w["x0"] < middle_x]
LeftWords(ws, width) ==
    LET Test(w) == LeftOfMiddle(w, width) IN SelectSeq(ws, Test)

\* variant: the right column takes x0 > middle_x only
RightWords_gt(ws, width) ==
    LET Test(w) == 2 * w.x0 > width IN SelectSeq(ws, Test)

\* right_words = [w for w in words if w["x0"] >= middle_x]
RightWords(ws, width) ==
    LET Test(w) == ~LeftOfMiddle(w, width) IN SelectSeq(ws, Test)

\* Hundredths between 100.05 and 100.95 that end in 5: the double nearest to
\* the decimal lies above it, below it, or (100.25, 100.75) is the decimal.
DoubleAbove == {10015, 10045, 10065, 10095}
DoubleBelow == {10005, 10035, 10055, 10085}

\* round(word["top"], 1): the double is rounded correctly, an exact tie goes
\* to the even tenth
round1(top) ==
    LET q == top \div 10
        r == top % 10
    IN  IF r < 5 THEN q
        ELSE IF r > 5 THEN q + 1
        ELSE IF top \in DoubleAbove THEN q + 1
        ELSE IF top \in DoubleBelow THEN q
        ELSE IF q % 2 = 0 THEN q ELSE q + 1

\* variant: lines_dict[y] = [word] instead of append, a line keeps its last word
GroupLines_overwrite(words_list) ==
    [y \in {round1(words_list[i].top) : i \in DOMAIN words_list} |->
        LET Test(w) == round1(w.top) = y
            line == SelectSeq(words_list, Test)
        IN  <<line[Len(line)]>>]

\* lines_dict after the grouping loop: every word appended under its rounded top
GroupLines(words_list) ==
    [y \in {round1(words_list[i].top) : i \in DOMAIN words_list} |->
        LET Test(w) == round1(w.top) = y IN SelectSeq(words_list, Test)]

\* sorted(keys)
RECURSIVE sorted(_)
sorted(S) == IF S = {} THEN <<>> ELSE <<Min(S)>> \o sorted(S \ {Min(S)})

\* variant: the words of a line are joined in extraction order, unsorted
sorted_by_x0_unsorted(line) == line

\* sorted(line, key=lambda w: w["x0"]): stable, so equal x0 keep their order
RECURSIVE sorted_by_x0(_)
sorted_by_x0(line) ==
    IF line = <<>> THEN <<>>
    ELSE LET m == Min({w.x0 : w \in Range(line)})
             i == Min({k \in DOMAIN line : line[k].x0 = m})
         IN  <<line[i]>> \o
             sorted_by_x0(SubSeq(line, 1, i - 1) \o SubSeq(line, i + 1, Len(line)))

\* line_text = " ".join(w["text"] for w in line_words)
LineText(line) ==
    LET line_words == sorted_by_x0(line)
    IN  join(" ", [k \in DOMAIN line_words |-> line_words[k].text])

\* the text reconstruct_text returns for a lines_dict
TextOfLines(lines_dict) ==
    LET sorted_ys == sorted(DOMAIN lines_dict)
    IN  join("\n", [k \in DOMAIN sorted_ys |-> LineText(lines_dict[sorted_ys[k]])])

reconstruct_text(words_list) ==
    IF words_list = <<>> THEN <<>> ELSE TextOfLines(GroupLines(words_list))

-----------------------------------------------------------------------------
(* Pages: the input of extract_clues_from_pdf *)

PageWidth == 600

\* token texts, x0 and top of the pages enumerated token by token; 300 is the
\* midpoint of the page, 100.04 / 100.05 / 100.06 straddle a rounding boundary
WordTexts == {<<"Cat">>, <<"sat">>}
X0s == {10, 40, 300}
Tops == {10004, 10005, 10006}

Tokens == [text : WordTexts, x0 : X0s, top : Tops]

TokenPages == UNION {[1..n -> Tokens] : n \in 0..MaxWords}

\* pages written clue by clue: a clue is a number, a body and a length spec,
\* NL marks a line break inside the clue
NL == <<"\n">>
ClueNumbers == {<<"5">>, <<"1", "2">>}
ClueBodies ==
    {<< <<"a">> >>,
     << <<"a">>, NL, <<"b">> >>}
ClueSpecs ==
    {<< <<"(", "8", ")">> >>,
     << <<"(", "0", ")">> >>,
     << <<"(", "4", ",">>, <<"3", ")">> >>}

Clues ==
    {[stream |-> <<n>> \o b \o sp, side |-> sd] :
        n \in ClueNumbers, b \in ClueBodies, sp \in ClueSpecs, sd \in {"left", "right"}}

ScenarioA ==
    [stream |-> << <<"1">>, <<"Cheese">>, <<"dish">>, <<"needs">>, <<"opener">>,
                   <<"for">>, <<"starter">>, <<"(", "8", ")">> >>,
     side |-> "left"]
ScenarioB ==
    [stream |-> << <<"1", "2">>, <<"Row">>, <<"about">>, <<"knight's">>, <<"old">>,
                   <<"flame">>, <<"(", "4", ",", "4", ")">> >>,
     side |-> "left"]

\* a wrapped clue whose second line starts with a number
ScenarioWrap ==
    [stream |-> << <<"5">>, <<"a">>, NL, <<"2">>, <<"b">>, <<"(", "8", ")">> >>,
     side |-> "left"]

\* a clue whose length spec has more digits than int() converts, and the
\* clue printed after it
ScenarioLong(sd) ==
    <<[stream |-> << <<"5">>, <<"a">>, <<"(", LongDigits, ")">> >>, side |-> sd],
      [stream |-> << <<"1", "2">>, <<"b">>, <<"(", "8", ")">> >>, side |-> sd]>>

\* the tokens of a clue, each with its side and whether it starts a line
ClueItems(c) ==
    LET at == {k \in DOMAIN c.stream : c.stream[k] # NL}
        Item(k) == [text |-> c.stream[k], side |-> c.side,
                    brk |-> k = 1 \/ c.stream[k - 1] = NL]
        RECURSIVE Items(_)
        Items(S) == IF S = {} THEN <<>> ELSE <<Item(Min(S))>> \o Items(S \ {Min(S)})
    IN  Items(at)

\* the page a sequence of clues prints as: every clue starts a line, lines are
\* 12 points apart, the tokens of a line 30 points apart, the right column
\* starts at the midpoint
PageOfClues(cs) ==
    LET items == Concat([k \in DOMAIN cs |-> ClueItems(cs[k])])
        LineOf(i) == Cardinality({k \in 1..i : items[k].brk})
        ColOf(i) == i - Max({k \in 1..i : items[k].brk})
    IN  [i \in DOMAIN items |->
            [text |-> items[i].text,
             x0 |-> (IF items[i].side = "left" THEN 10 ELSE 310) + 30 * ColOf(i),
             top |-> 10000 + 1200 * LineOf(i)]]

CluePages ==
    {PageOfClues(cs) : cs \in UNION {[1..n -> Clues] : n \in 1..MaxClues}}
    \cup {PageOfClues(<<ScenarioA>>), PageOfClues(<<ScenarioB>>),
          PageOfClues(<<ScenarioWrap>>),
          PageOfClues(ScenarioLong("left")), PageOfClues(ScenarioLong("right"))}

Pages == TokenPages \cup CluePages

-----------------------------------------------------------------------------
(* Values of the variables a specification does not use *)

MetaIdle == raw_lines = <<>> /\ metadata = <<>>
CombineIdle == clues_data = <<>> /\ answers_data = <<>> /\ result = <<>>
ScoreIdle ==
    /\ model_answer = <<>>
    /\ target_text = <<>>
    /\ normalized_model = <<>>
    /\ normalized_target = <<>>
    /\ correct = FALSE
DupIdle == new_result = <<>> /\ existing_results = <<>> /\ duplicate_idx = -1
SaveIdle ==
    /\ results_files = <<>>
    /\ call = <<>>
    /\ returned = "None"
    /\ calls = 0
    /\ forced_only = TRUE
BuildIdle == all_results = <<>> /\ deduplicated = <<>>
IdIdle == benchmark_files = <<>> /\ samples = <<>> /\ dataset_files = <<>>
RestIdle == SaveIdle /\ BuildIdle /\ IdIdle
LenIdle == lengths = <<>> /\ length_str = <<>> /\ parsed = <<>>
ExtractIdle ==
    /\ words = <<>>
    /\ page_width = PageWidth
    /\ left_words = <<>>
    /\ right_words = <<>>
    /\ lines_dict_across = <<>>
    /\ lines_dict_down = <<>>
    /\ across_text = <<>>
    /\ down_text = <<>>
    /\ it = 1
    /\ across_clues = <<>>
    /\ down_clues = <<>>

-----------------------------------------------------------------------------
(* extract_clues_from_pdf *)

Init ==
    /\ pc = "split"
    /\ words \in Pages
    /\ page_width = PageWidth
    /\ left_words = <<>>
    /\ right_words = <<>>
    /\ lines_dict_across = <<>>
    /\ lines_dict_down = <<>>
    /\ across_text = <<>>
    /\ down_text = <<>>
    /\ it = 1
    /\ across_clues = <<>>
    /\ down_clues = <<>>
    /\ lengths = <<>>
    /\ length_str = <<>>
    /\ parsed = <<>>
    /\ MetaIdle /\ CombineIdle /\ ScoreIdle /\ DupIdle /\ RestIdle

\* lines 57-59: separate the words into the two columns
SplitColumns ==
    /\ pc = "split"
    /\ left_words' = LeftWords(words, page_width)
    /\ right_words' = RightWords(words, page_width)
    /\ pc' = "reconstruct"
    /\ UNCHANGED <<words, page_width, lines_dict_across, lines_dict_down,
                   across_text, down_text, it, across_clues, down_clues,
                   lengths, length_str, parsed, others>>

\* lines 85-86: across_text and down_text
ReconstructText ==
    /\ pc = "reconstruct"
    /\ lines_dict_across' = GroupLines(left_words)
    /\ lines_dict_down' = GroupLines(right_words)
    /\ across_text' = reconstruct_text(left_words)
    /\ down_text' = reconstruct_text(right_words)
    /\ pc' = "across"
    /\ UNCHANGED <<words, page_width, left_words, right_words, it,
                   across_clues, down_clues, lengths, length_str, parsed, others>>

\* lines 92-98: one iteration of the loop over the matches of across_text
AcrossMatch ==
    /\ pc = "across"
    /\ it <= Len(finditer(across_text))
    /\ ~Raises(finditer(across_text)[it])
    /\ LET match == finditer(across_text)[it]
           clue_num == int(match.group1)
       IN  across_clues' = Put(across_clues, clue_num, ClueRecord(match))
    /\ it' = it + 1
    /\ UNCHANGED <<pc, words, page_width, left_words, right_words,
                   lines_dict_across, lines_dict_down, across_text, down_text,
                   down_clues, lengths, length_str, parsed, others>>

\* lines 93-95: the loop body raises ValueError; no handler in the function,
\* the call ends without a return value
AcrossRaise ==
    /\ pc = "across"
    /\ it <= Len(finditer(across_text))
    /\ Raises(finditer(across_text)[it])
    /\ pc' = "across_raised"
    /\ UNCHANGED <<words, page_width, left_words, right_words,
                   lines_dict_across, lines_dict_down, across_text, down_text,
                   it, across_clues, down_clues, lengths, length_str, parsed,
                   others>>

\* variant: an empty across map ends the function before the down loop
AcrossEnd_early ==
    /\ pc = "across"
    /\ it > Len(finditer(across_text))
    /\ pc' = IF across_clues = <<>> THEN "done" ELSE "down"
    /\ it' = 1
    /\ UNCHANGED <<words, page_width, left_words, right_words,
                   lines_dict_across, lines_dict_down, across_text, down_text,
                   across_clues, down_clues, lengths, length_str, parsed, others>>

\* the loop over across_text is exhausted
AcrossEnd ==
    /\ pc = "across"
    /\ it > Len(finditer(across_text))
    /\ pc' = "down"
    /\ it' = 1
    /\ UNCHANGED <<words, page_width, left_words, right_words,
                   lines_dict_across, lines_dict_down, across_text, down_text,
                   across_clues, down_clues, lengths, length_str, parsed, others>>

\* variant: the down loop stores its records in the across map
DownMatch_shared ==
    /\ pc = "down"
    /\ it <= Len(finditer(down_text))
    /\ ~Raises(finditer(down_text)[it])
    /\ LET match == finditer(down_text)[it]
           clue_num == int(match.group1)
       IN  across_clues' = Put(across_clues, clue_num, ClueRecord(match))
    /\ it' = it + 1
    /\ UNCHANGED <<pc, words, page_width, left_words, right_words,
                   lines_dict_across, lines_dict_down, across_text, down_text,
                   down_clues, lengths, length_str, parsed, others>>

\* lines 101-107: one iteration of the loop over the matches of down_text
DownMatch ==
    /\ pc = "down"
    /\ it <= Len(finditer(down_text))
    /\ ~Raises(finditer(down_text)[it])
    /\ LET match == finditer(down_text)[it]
           clue_num == int(match.group1)
       IN  down_clues' = Put(down_clues, clue_num, ClueRecord(match))
    /\ it' = it + 1
    /\ UNCHANGED <<pc, words, page_width, left_words, right_words,
                   lines_dict_across, lines_dict_down, across_text, down_text,
                   across_clues, lengths, length_str, parsed, others>>

\* lines 102-104: the loop body raises ValueError
DownRaise ==
    /\ pc = "down"
    /\ it <= Len(finditer(down_text))
    /\ Raises(finditer(down_text)[it])
    /\ pc' = "down_raised"
    /\ UNCHANGED <<words, page_width, left_words, right_words,
                   lines_dict_across, lines_dict_down, across_text, down_text,
                   it, across_clues, down_clues, lengths, length_str, parsed,
                   others>>

\* the loop over down_text is exhausted: the function returns
DownEnd ==
    /\ pc = "down"
    /\ it > Len(finditer(down_text))
    /\ pc' = "done"
    /\ it' = 1
    /\ UNCHANGED <<words, page_width, left_words, right_words,
                   lines_dict_across, lines_dict_down, across_text, down_text,
                   across_clues, down_clues, lengths, length_str, parsed, others>>

Next ==
    \/ SplitColumns
    \/ ReconstructText
    \/ AcrossMatch
    \/ AcrossRaise
    \/ AcrossEnd
    \/ DownMatch
    \/ DownRaise
    \/ DownEnd

Spec == Init /\ [][Next]_vars

-----------------------------------------------------------------------------
(* Properties of the column split *)

Splitted == pc # "split"

\* C1: the column split is a total, disjoint partition: every input token is
\* in exactly one of left_words / right_words, |left| + |right| = |input|,
\* no token is dropped or duplicated.
C1_PartitionTotal ==
    Splitted =>
        /\ Len(left_words) + Len(right_words) = Len(words)
        /\ SeqToBag(left_words) (+) SeqToBag(right_words) = SeqToBag(words)
        /\ Range(left_words) \cap Range(right_words) = {}

\* a split page with tokens on both sides, one of them exactly on the midpoint
C1_Witness ==
    /\ Splitted
    /\ left_words # <<>>
    /\ \E i \in DOMAIN right_words : 2 * right_words[i].x0 = page_width
    /\ Len(words) = MaxWords

\* C2: a token is in the left column iff x0 < page_width / 2; every other
\* token, the one with x0 on the midpoint included, is in the right column.
C2_LeftIffBelowMiddle ==
    Splitted =>
        \A i \in DOMAIN words :
            /\ words[i] \in Range(left_words) <=> 2 * words[i].x0 < page_width
            /\ words[i] \in Range(right_words) <=> 2 * words[i].x0 >= page_width

\* a token on the midpoint went right, a token below it went left
C2_Witness ==
    /\ Splitted
    /\ \E i \in DOMAIN words :
        /\ 2 * words[i].x0 = page_width
        /\ words[i] \in Range(right_words)
        /\ words[i] \notin Range(left_words)
    /\ \E i \in DOMAIN words :
        /\ 2 * words[i].x0 < page_width
        /\ words[i] \in Range(left_words)

-----------------------------------------------------------------------------
(* Properties of reconstruct_text *)

Reconstructed == pc \notin {"split", "reconstruct"}

\* the two columns: words, lines_dict and text
Columns ==
    {[ws |-> left_words, ld |-> lines_dict_across, text |-> across_text],
     [ws |-> right_words, ld |-> lines_dict_down, text |-> down_text]}

CatToken == [text |-> <<"Cat">>, x0 |-> 10, top |-> 10004]
SatToken == [text |-> <<"sat">>, x0 |-> 40, top |-> 10006]

\* C3: the tokens {"Cat", x0 10, top 100.04} and {"sat", x0 40, top 100.06} of
\* one column are reconstructed as the single line "Cat sat".
C3_ScenarioD ==
    (Reconstructed /\ left_words \in {<<CatToken, SatToken>>, <<SatToken, CatToken>>})
        => Render(across_text) = "Cat sat"

\* the lines of a lines_dict, top to bottom, as one sequence of words
WordsOfLines(ld) ==
    LET ys == sorted(DOMAIN ld) IN Concat([k \in DOMAIN ys |-> ld[ys[k]]])

\* C4: two tokens of a column are on the same line iff their tops rounded to
\* one decimal are equal, and every token of the column is in exactly one
\* line exactly once.
C4_LinesByRoundedTop ==
    Reconstructed =>
        \A c \in Columns :
            /\ \A i, j \in DOMAIN c.ws :
                (\E y \in DOMAIN c.ld :
                    c.ws[i] \in Range(c.ld[y]) /\ c.ws[j] \in Range(c.ld[y]))
                <=> round1(c.ws[i].top) = round1(c.ws[j].top)
            /\ SeqToBag(WordsOfLines(c.ld)) = SeqToBag(c.ws)
            /\ \A y \in DOMAIN c.ld : c.ld[y] # <<>>

\* a column with two lines, one of them holding tokens of different tops
C4_Witness ==
    /\ Reconstructed
    /\ \E y, z \in DOMAIN lines_dict_across :
        /\ y # z
        /\ \E i, j \in DOMAIN lines_dict_across[y] :
            lines_dict_across[y][i].top # lines_dict_across[y][j].top

\* the token texts of a line of text
LineTokens(line) == split(line, " ")

\* tt is the texts of the words of line in some order of non-decreasing x0
InX0Order(tt, line) ==
    /\ Len(tt) = Len(line)
    /\ \A v \in {line[k].x0 : k \in DOMAIN line} :
        LET lo == Cardinality({k \in DOMAIN line : line[k].x0 < v})
            hi == Cardinality({k \in DOMAIN line : line[k].x0 <= v})
            Test(w) == w.x0 = v
            same == SelectSeq(line, Test)
        IN  SeqToBag(SubSeq(tt, lo + 1, hi)) =
                SeqToBag([k \in DOMAIN same |-> same[k].text])

\* C5: the lines of a column are emitted in ascending order of their rounded
\* top; within a line the tokens are in non-decreasing x0 order and the line
\* text is their texts joined by single spaces.
C5_LineOrder ==
    Reconstructed =>
        \A c \in Columns :
            LET ys == sorted(DOMAIN c.ld)
                text_lines == IF c.ws = <<>> THEN <<>> ELSE split(c.text, "\n")
            IN  /\ c.ws = <<>> => c.text = <<>>
                /\ Len(text_lines) = Len(ys)
                /\ \A k \in DOMAIN text_lines :
                    /\ \A l \in 1..(k - 1) : ys[l] < ys[k]
                    /\ InX0Order(LineTokens(text_lines[k]), c.ld[ys[k]])

\* a column of two lines whose first line was extracted right to left
C5_Witness ==
    /\ Reconstructed
    /\ Cardinality(DOMAIN lines_dict_across) = 2
    /\ \E y \in DOMAIN lines_dict_across :
        /\ Len(lines_dict_across[y]) >= 2
        /\ lines_dict_across[y][1].x0 > lines_dict_across[y][2].x0
        /\ \E z \in DOMAIN lines_dict_across : y < z

-----------------------------------------------------------------------------
(* Properties of the clue tokenizer *)

\* the two directions: text, clue map, and the matches whose loop body has run
Directions ==
    {[text |-> across_text, clues |-> across_clues,
      seen |-> IF pc \in {"across", "across_raised"} THEN it - 1
               ELSE IF pc \in {"down", "down_raised", "done"}
                    THEN Len(finditer(across_text))
               ELSE 0],
     [text |-> down_text, clues |-> down_clues,
      seen |-> IF pc \in {"down", "down_raised"} THEN it - 1
               ELSE IF pc = "done" THEN Len(finditer(down_text))
               ELSE 0]}

\* c is g without its leading and trailing whitespace
Trimmed(c, g) ==
    /\ c = <<>> \/ (~IsSpace(c[1]) /\ ~IsSpace(c[Len(c)]))
    /\ \E a \in 0..(Len(g) - Len(c)) :
        /\ SubSeq(g, a + 1, a + Len(c)) = c
        /\ \A k \in (1..a) \cup ((a + Len(c) + 1)..Len(g)) : IsSpace(g[k])

\* the integers of a parenthesized length spec, one per comma-separated segment
LengthsOf(g3) ==
    LET segs == split(SubSeq(g3, 2, Len(g3) - 1), ",")
    IN  [k \in DOMAIN segs |-> DigitsValue(SelectSeq(segs[k], IsDigit))]

\* r is the record of match m
IsRecordOf(r, m) ==
    /\ Trimmed(r.clue, m.group2)
    /\ r.answer_length = LengthsOf(m.group3)
    /\ r.answer = None

\* C6: for every pattern match the tokenizer emits a record whose number is
\* the leading integer, whose clue text is the trimmed middle group, whose
\* answer_length is the parsed length spec and whose answer is null; the page
\* "1 Cheese dish needs opener for starter (8)" gives {1, that text, [8],
\* null} and "12 Row about knight's old flame (4,4)" gives [4,4].
C6_RecordOfMatch ==
    /\ \A d \in Directions :
        LET ms == finditer(d.text)
        IN  /\ \A k \in 1..d.seen : DigitsValue(ms[k].group1) \in DOMAIN d.clues
            /\ \A n \in DOMAIN d.clues :
                \E k \in 1..d.seen :
                    DigitsValue(ms[k].group1) = n /\ IsRecordOf(d.clues[n], ms[k])
    /\ (pc = "done" /\ words = PageOfClues(<<ScenarioA>>)) =>
        /\ DOMAIN across_clues = {1}
        /\ Render(across_clues[1].clue) = "Cheese dish needs opener for starter"
        /\ across_clues[1].answer_length = <<8>>
        /\ across_clues[1].answer = None
    /\ (pc = "done" /\ words = PageOfClues(<<ScenarioB>>)) =>
        /\ DOMAIN across_clues = {12}
        /\ across_clues[12].answer_length = <<4, 4>>

\* the page of scenario A has been tokenized
C6_Witness ==
    /\ pc = "done"
    /\ words = PageOfClues(<<ScenarioA>>)
    /\ Render(across_text) = "1 Cheese dish needs opener for starter (8)"
    /\ 1 \in DOMAIN across_clues

\* C7: a clue whose text wraps across two or more lines (number at the start
\* of the first, length spec at the end of the last) is recombined into one
\* record with that clue's number and its full text.
C7_WrappedClueRecombined ==
    \A c \in Clues \cup {ScenarioWrap} :
        (pc = "done" /\ NL \in Range(c.stream) /\ words = PageOfClues(<<c>>)) =>
            LET clues == IF c.side = "left" THEN across_clues ELSE down_clues
                n == DigitsValue(c.stream[1])
            IN  /\ DOMAIN clues = {n}
                /\ {"a", "b"} \subseteq Range(clues[n].clue)

\* C8: every answer_length of an emitted record is a non-empty sequence of
\* positive integers, one per comma-separated segment of the length spec.
C8_PositiveLengths ==
    \A d \in Directions :
        \A n \in DOMAIN d.clues :
            LET L == d.clues[n].answer_length
            IN  /\ Len(L) >= 1
                /\ \A k \in DOMAIN L : L[k] > 0
                /\ \E k \in 1..d.seen :
                    LET g3 == finditer(d.text)[k].group3
                    IN  Len(L) = 1 + Cardinality({j \in DOMAIN g3 : g3[j] = ","})

\* C10: when a clue number is matched more than once in a column's text, the
\* clue map of that direction holds exactly one record for the number, the
\* parse of its last occurrence in document order.
C10_LastMatchWins ==
    \A d \in Directions :
        LET ms == finditer(d.text)
            NumberOf(k) == DigitsValue(ms[k].group1)
        IN  d.seen = Len(ms) =>
                /\ DOMAIN d.clues = {NumberOf(k) : k \in DOMAIN ms}
                /\ \A n \in DOMAIN d.clues :
                    LET last == Max({k \in DOMAIN ms : NumberOf(k) = n})
                    IN  IsRecordOf(d.clues[n], ms[last])

\* a number matched twice in the across text with different length specs
C10_Witness ==
    /\ pc = "done"
    /\ LET ms == finditer(across_text)
       IN  \E i, j \in DOMAIN ms :
            /\ i < j
            /\ ms[i].group1 = ms[j].group1
            /\ ms[i].group3 # ms[j].group3
            /\ DigitsValue(ms[i].group1) \in DOMAIN across_clues

\* the positions of s at which the pattern matches
CandidateStarts(s) == {i \in DOMAIN s : Candidates(s, i) # {}}

\* the clue numbers of the matches of s
NumbersOf(s) == {DigitsValue(finditer(s)[k].group1) : k \in DOMAIN finditer(s)}

Raised == pc \in {"across_raised", "down_raised"}

\* C11: the matches of a column's text are taken left to right and never
\* overlap: each character belongs to at most one match, every match starts
\* where the pattern matches, and a position where the pattern matches that
\* is not the start of a kept match lies inside a kept match that starts
\* further left (scanning resumed after that match's end); the clue map holds
\* the numbers of the kept matches only.
C11_NonOverlapping ==
    pc = "done" =>
        \A d \in Directions :
            LET ms == finditer(d.text)
                MatchStarts == {ms[k].start : k \in DOMAIN ms}
            IN  /\ \A k \in DOMAIN ms :
                    ms[k].start < ms[k].end /\ ms[k].start \in CandidateStarts(d.text)
                /\ \A k \in 1..(Len(ms) - 1) : ms[k].end <= ms[k + 1].start
                /\ \A i \in DOMAIN d.text :
                    Cardinality({k \in DOMAIN ms : ms[k].start <= i /\ i < ms[k].end}) <= 1
                /\ \A i \in CandidateStarts(d.text) \ MatchStarts :
                    \E k \in DOMAIN ms : ms[k].start < i /\ i < ms[k].end
                /\ DOMAIN d.clues = {DigitsValue(ms[k].group1) : k \in DOMAIN ms}

\* the across text holds a position where the pattern matches inside a kept
\* match ("2 a (8)" inside "12 a (8)"), and no record was emitted for it
C11_Witness ==
    /\ pc = "done"
    /\ LET ms == finditer(across_text)
       IN  \E i \in CandidateStarts(across_text) :
            /\ \E k \in DOMAIN ms : ms[k].start < i /\ i < ms[k].end
            /\ DigitsValue(MatchAt(across_text, i).group1) \notin DOMAIN across_clues
    /\ across_clues # <<>>

\* C12: a column whose text has no pattern match, a column with no tokens
\* (whose text is empty) included, gives an empty clue map and raises
\* nothing: the function only raises where a match raises, and the clues of
\* the other direction are still produced.
C12_EmptyColumn ==
    /\ \A d \in Directions : finditer(d.text) = <<>> => d.clues = <<>>
    /\ Reconstructed =>
        /\ left_words = <<>> => across_text = <<>>
        /\ right_words = <<>> => down_text = <<>>
    /\ pc = "across_raised" => \E k \in DOMAIN finditer(across_text) :
                                    Raises(finditer(across_text)[k])
    /\ pc = "down_raised" => \E k \in DOMAIN finditer(down_text) :
                                    Raises(finditer(down_text)[k])
    /\ pc = "done" =>
        /\ finditer(across_text) = <<>> => DOMAIN down_clues = NumbersOf(down_text)
        /\ finditer(down_text) = <<>> => DOMAIN across_clues = NumbersOf(across_text)

\* a page whose left column has no token and whose right column has clues
C12_Witness ==
    /\ pc = "done"
    /\ words # <<>>
    /\ left_words = <<>>
    /\ across_text = <<>>
    /\ across_clues = <<>>
    /\ down_clues # <<>>

\* C13: a length spec that does not parse aborts only its own match: the
\* function does not fail as a whole, and a record is emitted for every
\* other match of the page.
C13_ParseErrorSkipsMatch ==
    /\ ~Raised
    /\ pc = "done" =>
        \A d \in Directions :
            \A k \in DOMAIN finditer(d.text) :
                ~Raises(finditer(d.text)[k]) =>
                    DigitsValue(finditer(d.text)[k].group1) \in DOMAIN d.clues

-----------------------------------------------------------------------------
(* parse_answer_length called on a formatted length sequence *)

LengthSeqs == UNION {[1..n -> 1..MaxLetters] : n \in 1..MaxSegs}

\* str(n)
RECURSIVE str(_)
str(n) ==
    IF n < 10 THEN <<DigitSeq[n + 1]>>
    ELSE str(n \div 10) \o <<DigitSeq[(n % 10) + 1]>>

\* "(" + ",".join(str(n) for n in L) + ")"
Format(L) == <<"(">> \o join(",", [k \in DOMAIN L |-> str(L[k])]) \o <<")">>

InitLen ==
    /\ pc = "parse"
    /\ lengths \in LengthSeqs
    /\ length_str = Format(lengths)
    /\ parsed = <<>>
    /\ words = <<>>
    /\ page_width = PageWidth
    /\ left_words = <<>>
    /\ right_words = <<>>
    /\ lines_dict_across = <<>>
    /\ lines_dict_down = <<>>
    /\ across_text = <<>>
    /\ down_text = <<>>
    /\ it = 1
    /\ across_clues = <<>>
    /\ down_clues = <<>>
    /\ MetaIdle /\ CombineIdle /\ ScoreIdle /\ DupIdle /\ RestIdle

ParseLength ==
    /\ pc = "parse"
    /\ parsed' = parse_answer_length(length_str)
    /\ pc' = "parsed"
    /\ UNCHANGED <<words, page_width, left_words, right_words,
                   lines_dict_across, lines_dict_down, across_text, down_text,
                   it, across_clues, down_clues, lengths, length_str, others>>

NextLen == ParseLength

SpecLen == InitLen /\ [][NextLen]_vars

\* C9: formatting a length sequence L as a parenthesized comma-separated
\* string and passing it to parse_answer_length returns exactly L.
C9_RoundTrip == pc = "parsed" => parsed = lengths

\* [4,3,5] was formatted as "(4,3,5)" and parsed back
C9_Witness ==
    /\ pc = "parsed"
    /\ lengths = <<4, 3, 5>>
    /\ Render(length_str) = "(4,3,5)"
    /\ parsed = <<4, 3, 5>>

-----------------------------------------------------------------------------
(* The metadata scan of extract_clues_from_pdf (lines 31-55); it reads the raw
   text of the page only and shares nothing with the column split, so it is
   run as a specification of its own. A line is a sequence of characters. *)

MaxLines == 6

\* lines[:5]
ScanLines == 5

Months ==
    {<<"J", "a", "n", "u", "a", "r", "y">>,
     <<"F", "e", "b", "r", "u", "a", "r", "y">>,
     <<"M", "a", "r", "c", "h">>,
     <<"A", "p", "r", "i", "l">>,
     <<"M", "a", "y">>,
     <<"J", "u", "n", "e">>,
     <<"J", "u", "l", "y">>,
     <<"A", "u", "g", "u", "s", "t">>,
     <<"S", "e", "p", "t", "e", "m", "b", "e", "r">>,
     <<"O", "c", "t", "o", "b", "e", "r">>,
     <<"N", "o", "v", "e", "m", "b", "e", "r">>,
     <<"D", "e", "c", "e", "m", "b", "e", "r">>}

Keywords == {<<"T", "i", "m", "e", "s">>, <<"C", "r", "y", "p", "t", "i", "c">>, <<"Q", "u", "i", "c", "k">>}

\* sub in line
Contains(line, sub) ==
    \E i \in 1..(Len(line) - Len(sub) + 1) : SubSeq(line, i, i + Len(sub) - 1) = sub

\* "20" in line and any(month in line for month in [...])
IsDateLine(line) ==
    Contains(line, <<"2", "0">>) /\ \E month \in Months : Contains(line, month)

\* "Times" in line or "Cryptic" in line or "Quick" in line
IsNameLine(line) == \E kw \in Keywords : Contains(line, kw)

\* variant: every line of the text is scanned
FirstLines_all(lines) == lines

\* lines[:5]
FirstLines(lines) == SubSeq(lines, 1, Min({ScanLines, Len(lines)}))

\* the for loop of lines 35-55 over the lines it is given, starting from md
RECURSIVE scan_metadata(_, _)
scan_metadata(lines, md) ==
    IF lines = <<>> THEN md
    ELSE LET line == Head(lines)
             md1 == IF IsDateLine(line) THEN Put(md, "date", strip(line))
                    ELSE IF IsNameLine(line) THEN Put(md, "puzzle_name", strip(line))
                    ELSE md
         IN  scan_metadata(Tail(lines), md1)

\* the lines a page's raw text may hold
LinePool ==
    {<<"T", "h", "e", " ", "T", "i", "m", "e", "s">>,   \* "The Times"
     <<" ", "Q", "u", "i", "c", "k", " ">>,   \* " Quick "
     <<"1", "2", " ", "M", "a", "y", " ", "2", "0", "2", "4">>,   \* "12 May 2024"
     <<"2", "0", " ", "M", "a", "y">>,   \* "20 May"
     <<"T", "i", "m", "e", "s", " ", "M", "a", "y", " ", "2", "0", "2", "4">>,   \* "Times May 2024"
     <<"A", "c", "r", "o", "s", "s">>}   \* "Across"

RawTexts == UNION {[1..n -> LinePool] : n \in 0..MaxLines}

InitMeta ==
    /\ pc = "scan"
    /\ raw_lines \in RawTexts
    /\ metadata = <<>>
    /\ ExtractIdle /\ LenIdle /\ CombineIdle /\ ScoreIdle /\ DupIdle /\ RestIdle

\* lines 34-55
ScanMetadata ==
    /\ pc = "scan"
    /\ metadata' = scan_metadata(FirstLines(raw_lines), <<>>)
    /\ pc' = "scanned"
    /\ UNCHANGED <<raw_lines, extractVars, lenVars, combineVars, scoreVars, dupVars, rest>>

NextMeta == ScanMetadata

SpecMeta == InitMeta /\ [][NextMeta]_vars

\* the first five lines of the raw text, by index
Scanned == 1..Min({ScanLines, Len(raw_lines)})

\* four decimal digits in a row
HasFourDigitYear(line) ==
    \E i \in 1..(Len(line) - 3) : \A j \in i..(i + 3) : line[j] \in DigitChars

HasMonthName(line) == \E month \in Months : Contains(line, month)

\* C14: the date of the metadata is set only from one of the first five lines
\* of the raw text that holds a four-digit year and a month name; a line
\* without a four-digit year is never taken as the date.
C14_DateNeedsYear ==
    (pc = "scanned" /\ "date" \in DOMAIN metadata) =>
        \E k \in Scanned :
            /\ metadata["date"] = strip(raw_lines[k])
            /\ HasFourDigitYear(raw_lines[k])
            /\ HasMonthName(raw_lines[k])

\* C15 as stated: when exactly one of the first five lines holds a keyword,
\* puzzle_name is that line stripped.
C15_KeywordLineIsName ==
    pc = "scanned" =>
        \A k \in Scanned :
            (\A j \in Scanned : IsNameLine(raw_lines[j]) <=> j = k) =>
                /\ "puzzle_name" \in DOMAIN metadata
                /\ metadata["puzzle_name"] = strip(raw_lines[k])

\* C15: a line among the first five that holds a keyword and is not taken as
\* the date (it does not hold "20" together with a month name) is taken as
\* the puzzle name: when exactly one such line exists puzzle_name is that
\* line stripped, when none exists puzzle_name is not set.
C15_NameLineUnlessDate ==
    pc = "scanned" =>
        LET NameLines == {k \in Scanned :
                            IsNameLine(raw_lines[k]) /\ ~IsDateLine(raw_lines[k])}
        IN  /\ "puzzle_name" \in DOMAIN metadata <=> NameLines # {}
            /\ \A k \in NameLines :
                NameLines = {k} => metadata["puzzle_name"] = strip(raw_lines[k])

\* exactly one keyword line that is not a date line, with blanks around it,
\* next to a keyword line that is taken as the date, and a keyword line
\* beyond the fifth
C15_Witness ==
    /\ pc = "scanned"
    /\ Len(raw_lines) > ScanLines
    /\ IsNameLine(raw_lines[Len(raw_lines)])
    /\ \E k, j \in Scanned :
        /\ IsNameLine(raw_lines[k]) /\ ~IsDateLine(raw_lines[k])
        /\ raw_lines[k] # strip(raw_lines[k])
        /\ IsNameLine(raw_lines[j]) /\ IsDateLine(raw_lines[j])
        /\ \A i \in Scanned \ {k} : ~IsNameLine(raw_lines[i]) \/ IsDateLine(raw_lines[i])
        /\ metadata["puzzle_name"] = strip(raw_lines[k])
        /\ metadata["puzzle_name"] # raw_lines[Len(raw_lines)]

-----------------------------------------------------------------------------
(* combine_clues_and_answers (extract_answers.py, lines 134-160). A dict is
   a function; a clue map is keyed by the clue number, which stands for the
   key "12" of the JSON file as well as for the key 12 of the extractor, both
   of which str() turns into "12"; an answers map is keyed by strings. *)

\* d.get(k, default)
Get(d, k, default) == IF k \in DOMAIN d THEN d[k] ELSE default

\* variant: both directions read the across answers
AnswerFor_across(answers, direction, num_str) ==
    Get(Get(answers, "across", <<>>), str(num_str), None)

\* answers_data.get(direction, {}).get(str(num_str))
AnswerFor(answers, direction, num_str) ==
    Get(Get(answers, direction, <<>>), str(num_str), None)

\* the dict the loop of lines 145-150 (152-157) builds for one direction
CombineDirection(clues, answers, direction) ==
    LET clue_map == Get(clues, direction, <<>>)
    IN  [num_str \in DOMAIN clue_map |->
            [clue |-> clue_map[num_str].clue,
             answer_length |-> clue_map[num_str].answer_length,
             answer |-> AnswerFor(answers, direction, num_str)]]

combine_clues_and_answers(clues, answers) ==
    [metadata |-> Get(clues, "metadata", <<>>),
     across |-> CombineDirection(clues, answers, "across"),
     down |-> CombineDirection(clues, answers, "down")]

\* the clue maps, answers maps and metadata the two arguments are built from
ClueNums == {1, 12}
ExtractedRecord(n) ==
    [clue |-> IF n = 1 THEN <<"a">> ELSE <<"b", " ", "c">>,
     answer_length |-> IF n = 1 THEN <<8>> ELSE <<4, 3>>,
     answer |-> None]
ClueMaps == {[n \in S |-> ExtractedRecord(n)] : S \in SUBSET ClueNums}
AnswerKeys == {<<"1">>, <<"1", "2">>, <<"7">>}
AnswerMaps == UNION {[S -> {"CAT", "DOG"}] : S \in SUBSET AnswerKeys}
Metadatas == {[k \in S |-> <<"1", "2", " ", "M", "a", "y">>] : S \in SUBSET {"date"}}

\* a dict may lack any of its keys
CluesDatas ==
    {[k \in present |-> CASE k = "metadata" -> md
                          [] k = "across" -> ac
                          [] k = "down" -> dn] :
        present \in SUBSET {"metadata", "across", "down"},
        md \in Metadatas, ac \in ClueMaps, dn \in ClueMaps}

AnswersDatas ==
    {[k \in present |-> IF k = "across" THEN ac ELSE dn] :
        present \in SUBSET {"across", "down"}, ac \in AnswerMaps, dn \in AnswerMaps}

InitCombine ==
    /\ pc = "combine"
    /\ clues_data \in CluesDatas
    /\ answers_data \in AnswersDatas
    /\ result = <<>>
    /\ ExtractIdle /\ LenIdle /\ MetaIdle /\ ScoreIdle /\ DupIdle /\ RestIdle

\* variant: the answers are written into the records of clues_data, which
\* is what the function returns
Combine_in_place ==
    /\ pc = "combine"
    /\ result' = combine_clues_and_answers(clues_data, answers_data)
    /\ clues_data' = result'
    /\ pc' = "combined"
    /\ UNCHANGED <<answers_data, extractVars, lenVars, metaVars, scoreVars, dupVars, rest>>

\* the call: result is a dict built in the function; no statement assigns
\* to clues_data, to answers_data or to an object reached from them
Combine ==
    /\ pc = "combine"
    /\ result' = combine_clues_and_answers(clues_data, answers_data)
    /\ pc' = "combined"
    /\ UNCHANGED <<clues_data, answers_data, extractVars, lenVars, metaVars,
                   scoreVars, dupVars, rest>>

NextCombine == Combine

SpecCombine == InitCombine /\ [][NextCombine]_vars

\* C16: attaching answers never changes the clues_data argument: its
\* metadata, its across and down maps and every record's clue, answer_length
\* and answer are after the call what they were before it.
C16_CluesDataUnchanged == [][clues_data' = clues_data]_vars

\* the call has filled in an answer, and the record of clues_data still has
\* none
C16_Witness ==
    /\ pc = "combined"
    /\ "across" \in DOMAIN clues_data
    /\ \E n \in DOMAIN clues_data["across"] :
        /\ result["across"][n].answer # None
        /\ clues_data["across"][n].answer = None

\* C19: per direction the result has exactly the clue numbers of clues_data;
\* each record keeps clue and answer_length, and its answer is the entry of
\* answers_data for that direction under the string form of the number, null
\* when there is none; answers for other numbers are dropped.
C19_CombineByNumber ==
    pc = "combined" =>
        \A direction \in {"across", "down"} :
            LET clue_map == IF direction \in DOMAIN clues_data
                            THEN clues_data[direction] ELSE <<>>
                given == IF direction \in DOMAIN answers_data
                         THEN answers_data[direction] ELSE <<>>
                out == result[direction]
            IN  /\ DOMAIN out = DOMAIN clue_map
                /\ \A n \in DOMAIN out :
                    /\ out[n].clue = clue_map[n].clue
                    /\ out[n].answer_length = clue_map[n].answer_length
                    /\ \A key \in DOMAIN given :
                        DigitsValue(key) = n => out[n].answer = given[key]
                    /\ (\A key \in DOMAIN given : DigitsValue(key) # n) =>
                        out[n].answer = None

\* the down answers hold an entry for a clue of clues_data, one for a number
\* clues_data does not have, and none for another clue; the across answers
\* differ
C19_Witness ==
    /\ pc = "combined"
    /\ {"across", "down"} \subseteq DOMAIN answers_data
    /\ "down" \in DOMAIN clues_data
    /\ DOMAIN result["down"] = {1, 12}
    /\ DOMAIN answers_data["down"] = {<<"1", "2">>, <<"7">>}
    /\ result["down"][12].answer = "DOG"
    /\ result["down"][1].answer = None
    /\ <<"1", "2">> \in DOMAIN answers_data["across"]
    /\ answers_data["across"][<<"1", "2">>] = "CAT"

-----------------------------------------------------------------------------
(* normalize_answer and cryptic_scorer (cryptic_crossword_eval.py, lines
   22-48). An answer is a sequence of characters. *)

MaxAnswerLen == 3
MaxTargetLen == 2

\* the characters of the answers: letters of either case, a letter whose
\* capital is two letters, a digit, a blank and a punctuation mark
Alphabet == {"a", "A", "b", "1", " ", "-", "ß"}

\* str.upper() of one character
Upper(c) ==
    CASE c = "a" -> <<"A">>
      [] c = "b" -> <<"B">>
      [] c = "ß" -> <<"S", "S">>
      [] OTHER -> <<c>>

\* c.isalnum()
IsAlnum(c) == c \in {"a", "b", "ß", "A", "B", "S", "1"}

\* variant: the case is left as it is
upper_none(answer) == answer

\* answer.upper()
upper(answer) == Concat([i \in DOMAIN answer |-> Upper(answer[i])])

\* "".join(c for c in answer.upper() if c.isalnum())
normalize_answer(answer) == SelectSeq(upper(answer), IsAlnum)

ModelAnswers == UNION {[1..n -> Alphabet] : n \in 0..MaxAnswerLen}
TargetTexts == UNION {[1..n -> Alphabet] : n \in 0..MaxTargetLen}

InitScore ==
    /\ pc = "score"
    /\ model_answer \in ModelAnswers
    /\ target_text \in TargetTexts
    /\ normalized_model = <<>>
    /\ normalized_target = <<>>
    /\ correct = FALSE
    /\ ExtractIdle /\ LenIdle /\ MetaIdle /\ CombineIdle /\ DupIdle /\ RestIdle

\* lines 31-41: the score function
ScoreAnswer ==
    /\ pc = "score"
    /\ normalized_model' = normalize_answer(model_answer)
    /\ normalized_target' = normalize_answer(target_text)
    /\ correct' = (normalized_model' = normalized_target')
    /\ pc' = "scored"
    /\ UNCHANGED <<model_answer, target_text, extractVars, lenVars, metaVars,
                   combineVars, dupVars, rest>>

NextScore == ScoreAnswer

SpecScore == InitScore /\ [][NextScore]_vars

\* the capital form of a letter or digit, nothing for any other character
Capitalized(c) ==
    IF c \in {"a", "A"} THEN <<"A">>
    ELSE IF c = "b" THEN <<"B">>
    ELSE IF c = "ß" THEN <<"S", "S">>
    ELSE IF c = "1" THEN <<"1">>
    ELSE <<>>

\* the letters and digits of s, in order
LettersAndDigits(s) ==
    LET Keep(c) == Capitalized(c) # <<>> IN SelectSeq(s, Keep)

\* s and t have the same letters and digits up to case
SameUpToCase(s, t) ==
    LET a == LettersAndDigits(s)
        b == LettersAndDigits(t)
    IN  Len(a) = Len(b) /\ \A i \in DOMAIN a : Capitalized(a[i]) = Capitalized(b[i])

\* C18: the model answer is marked correct exactly when it equals the target
\* after normalization; the normalized answer is the answer in capitals
\* without its non-alphanumeric characters; answers that differ only in
\* case, blanks or punctuation are marked correct; normalizing a normalized
\* answer gives it back.
C18_ScoreByNormalizedEquality ==
    pc = "scored" =>
        /\ correct <=> normalized_model = normalized_target
        /\ normalized_model =
            Concat([i \in DOMAIN model_answer |-> Capitalized(model_answer[i])])
        /\ normalized_target =
            Concat([i \in DOMAIN target_text |-> Capitalized(target_text[i])])
        /\ SameUpToCase(model_answer, target_text) => correct
        /\ normalize_answer(normalized_model) = normalized_model
        /\ normalize_answer(normalized_target) = normalized_target

\* "a-b" scored against "Ab": different strings, marked correct
C18_Witness ==
    /\ pc = "scored"
    /\ model_answer = <<"a", "-", "b">>
    /\ target_text = <<"A", "b">>
    /\ model_answer # normalized_model
    /\ correct

-----------------------------------------------------------------------------
(* find_duplicate (save_results.py, lines 259-300). A result entry is a
   record of the fields the function reads; a key that is read with a
   default (model_args, metadata.dataset_files) holds that default when the
   entry lacks it. The index is counted from 0 and NoIndex stands for None. *)

MaxResults == 2

\* return None
NoIndex == -1

\* the four tests of the loop body, none of which says continue
IsDuplicateOf(existing, new) ==
    /\ existing.model = new.model /\ existing.task = new.task
    /\ existing.samples = new.samples
    /\ existing.model_args = new.model_args
    /\ existing.dataset_files = new.dataset_files

find_duplicate(new, existing) ==
    LET hits == {idx \in 0..(Len(existing) - 1) : IsDuplicateOf(existing[idx + 1], new)}
    IN  IF hits = {} THEN NoIndex ELSE Min(hits)

\* a result entry, and the entries that differ from it in one field
BaseResult ==
    [model |-> "anthropic/claude", task |-> "cryptic_crossword",
     samples |-> [total |-> 2, completed |-> 2],
     model_args |-> [k \in {} |-> 0],
     dataset_files |-> <<"times_1.json">>]

ResultEntries ==
    {BaseResult,
     [BaseResult EXCEPT !.model = "openai/gpt"],
     [BaseResult EXCEPT !.task = "quick_crossword"],
     [BaseResult EXCEPT !.samples = [total |-> 2, completed |-> 1]],
     [BaseResult EXCEPT !.model_args = [k \in {"reasoning_tokens"} |-> 1024]],
     [BaseResult EXCEPT !.dataset_files = <<"times_1.json", "times_2.json">>]}

ResultLists == UNION {[1..n -> ResultEntries] : n \in 0..MaxResults}

InitDup ==
    /\ pc = "find"
    /\ new_result \in ResultEntries
    /\ existing_results \in ResultLists
    /\ duplicate_idx = NoIndex
    /\ ExtractIdle /\ LenIdle /\ MetaIdle /\ CombineIdle /\ ScoreIdle /\ RestIdle

FindDuplicate ==
    /\ pc = "find"
    /\ duplicate_idx' = find_duplicate(new_result, existing_results)
    /\ pc' = "found"
    /\ UNCHANGED <<new_result, existing_results, extractVars, lenVars, metaVars,
                   combineVars, scoreVars, rest>>

NextDup == FindDuplicate

SpecDup == InitDup /\ [][NextDup]_vars

\* C20: an existing result is a duplicate of the new one exactly when model,
\* task, model_args and dataset files are the same; find_duplicate returns
\* the index of the first duplicate, None when there is none; results that
\* differ in model_args are never duplicates.
C20_DuplicateByFourFields ==
    pc = "found" =>
        LET Same(e) ==
                /\ e.model = new_result.model
                /\ e.task = new_result.task
                /\ e.model_args = new_result.model_args
                /\ e.dataset_files = new_result.dataset_files
            dups == {i \in DOMAIN existing_results : Same(existing_results[i])}
        IN  /\ dups = {} => duplicate_idx = NoIndex
            /\ dups # {} => duplicate_idx = Min(dups) - 1
            /\ duplicate_idx # NoIndex =>
                existing_results[duplicate_idx + 1].model_args = new_result.model_args

-----------------------------------------------------------------------------
(* save_eval_results (save_results.py, lines 303-400), called again and
   again on a results directory that starts empty. A results file is the
   list of its entries: json.dumps writes one entry a line and json.loads
   reads it back as the same value, the entries holding strings, integers,
   lists and dicts only. *)

MaxCalls == 3

\* the entry create_result_entry builds from a log: the fields find_duplicate
\* reads, and the run id
RunEntry(e, id) ==
    [run_id |-> id, model |-> e.model, task |-> e.task, samples |-> e.samples,
     model_args |-> e.model_args, dataset_files |-> e.dataset_files]

\* two runs of the same evaluation, a run of another model, an incomplete
\* run and a run with other model_args
SaveResults ==
    {RunEntry(BaseResult, "run1"),
     RunEntry(BaseResult, "run2"),
     RunEntry([BaseResult EXCEPT !.model = "openai/gpt"], "run3"),
     RunEntry([BaseResult EXCEPT !.samples = [total |-> 2, completed |-> 1]], "run4"),
     RunEntry([BaseResult EXCEPT !.model_args = [k \in {"reasoning_tokens"} |-> 1024]],
              "run5")}

\* output_dir / (model.replace("/", "_").replace(":", "_") + ".jsonl")
get_model_results_path(model) ==
    CASE model = "anthropic/claude" -> "results/anthropic_claude.jsonl"
      [] model = "openai/gpt" -> "results/openai_gpt.jsonl"

\* the entries of the file, none when the file does not exist
read_existing_results(results_path) ==
    IF results_path \in DOMAIN results_files THEN results_files[results_path] ELSE <<>>

\* completed < total
IsIncomplete(entry) == entry.samples.completed < entry.samples.total

\* variant: the duplicate is removed and the new entry goes to the end
Override_move(entries, idx, entry) ==
    SubSeq(entries, 1, idx) \o SubSeq(entries, idx + 2, Len(entries)) \o <<entry>>

\* existing_results[duplicate_idx] = result
Override(entries, idx, entry) == [entries EXCEPT ![idx + 1] = entry]

InitSave ==
    /\ pc = "save"
    /\ results_files = <<>>
    /\ call = <<>>
    /\ returned = None
    /\ calls = 0
    /\ forced_only = TRUE
    /\ ExtractIdle /\ LenIdle /\ MetaIdle /\ CombineIdle /\ ScoreIdle /\ DupIdle
    /\ BuildIdle /\ IdIdle

\* what every call does: it is counted, its arguments are kept
Called(entry, force, include_incomplete) ==
    /\ calls < MaxCalls
    /\ calls' = calls + 1
    /\ call' = [result |-> entry, force |-> force,
                include_incomplete |-> include_incomplete]
    /\ forced_only' = (forced_only /\ force)
    /\ UNCHANGED <<pc, extractVars, lenVars, metaVars, combineVars, scoreVars,
                   dupVars, buildVars, idVars>>

\* lines 372-374 and 400: the file is written, its path returned
Written(entry, entries) ==
    /\ results_files' = Put(results_files, get_model_results_path(entry.model), entries)
    /\ returned' = get_model_results_path(entry.model)

\* variant: the incomplete run is appended all the same, and None returned
SaveSkipIncomplete_written ==
    \E entry \in SaveResults, force \in BOOLEAN :
        /\ IsIncomplete(entry)
        /\ Called(entry, force, FALSE)
        /\ returned' = None
        /\ results_files' =
            Put(results_files, get_model_results_path(entry.model),
                Append(read_existing_results(get_model_results_path(entry.model)), entry))

\* lines 332-339: an incomplete run without include_incomplete
SaveSkipIncomplete ==
    \E entry \in SaveResults, force \in BOOLEAN :
        /\ IsIncomplete(entry)
        /\ Called(entry, force, FALSE)
        /\ returned' = None
        /\ UNCHANGED results_files

\* lines 341-348 and 368-369: no duplicate in the file
SaveAppend ==
    \E entry \in SaveResults, force \in BOOLEAN, include_incomplete \in BOOLEAN :
        LET existing == read_existing_results(get_model_results_path(entry.model))
        IN  /\ ~(IsIncomplete(entry) /\ ~include_incomplete)
            /\ find_duplicate(entry, existing) = NoIndex
            /\ Called(entry, force, include_incomplete)
            /\ Written(entry, Append(existing, entry))

\* variant: force mode appends next to the duplicate
SaveForceOverride_append ==
    \E entry \in SaveResults, include_incomplete \in BOOLEAN :
        LET existing == read_existing_results(get_model_results_path(entry.model))
        IN  /\ ~(IsIncomplete(entry) /\ ~include_incomplete)
            /\ find_duplicate(entry, existing) # NoIndex
            /\ Called(entry, TRUE, include_incomplete)
            /\ Written(entry, Append(existing, entry))

\* lines 365-367: a duplicate in force mode
SaveForceOverride ==
    \E entry \in SaveResults, include_incomplete \in BOOLEAN :
        LET existing == read_existing_results(get_model_results_path(entry.model))
            duplicate == find_duplicate(entry, existing)
        IN  /\ ~(IsIncomplete(entry) /\ ~include_incomplete)
            /\ duplicate # NoIndex
            /\ Called(entry, TRUE, include_incomplete)
            /\ Written(entry, Override(existing, duplicate, entry))

\* lines 350-359: a duplicate without force, the user confirms the override
SaveConfirmOverride ==
    \E entry \in SaveResults, include_incomplete \in BOOLEAN :
        LET existing == read_existing_results(get_model_results_path(entry.model))
            duplicate == find_duplicate(entry, existing)
        IN  /\ ~(IsIncomplete(entry) /\ ~include_incomplete)
            /\ duplicate # NoIndex
            /\ Called(entry, FALSE, include_incomplete)
            /\ Written(entry, Override(existing, duplicate, entry))

\* lines 350-362: a duplicate without force, the user declines
SaveKeepBoth ==
    \E entry \in SaveResults, include_incomplete \in BOOLEAN :
        LET existing == read_existing_results(get_model_results_path(entry.model))
        IN  /\ ~(IsIncomplete(entry) /\ ~include_incomplete)
            /\ find_duplicate(entry, existing) # NoIndex
            /\ Called(entry, FALSE, include_incomplete)
            /\ Written(entry, Append(existing, entry))

NextSave ==
    \/ SaveSkipIncomplete
    \/ SaveAppend
    \/ SaveForceOverride
    \/ SaveConfirmOverride
    \/ SaveKeepBoth

SpecSave == InitSave /\ [][NextSave]_vars

\* the file the last call was about
CallPath == get_model_results_path(call.result.model)

\* C21: a call on a run with completed < total and include_incomplete false
\* returns None and leaves every results file as it was; with
\* include_incomplete true the run is saved: the path is returned and the
\* file holds the run.
C21_IncompleteSkipped ==
    [][IsIncomplete(call'.result) =>
        /\ ~call'.include_incomplete =>
            returned' = None /\ results_files' = results_files
        /\ call'.include_incomplete =>
            /\ returned' = get_model_results_path(call'.result.model)
            /\ returned' \in DOMAIN results_files'
            /\ call'.result \in Range(results_files'[returned'])]_vars

\* an incomplete run was skipped while the file of its model holds an entry
C21_Witness ==
    /\ calls >= 2
    /\ IsIncomplete(call.result)
    /\ ~call.include_incomplete
    /\ returned = None
    /\ CallPath \in DOMAIN results_files
    /\ call.result \notin Range(results_files[CallPath])

C26_OnePositionWritten ==
    [][returned' # None =>
        LET path == get_model_results_path(call'.result.model)
            before == read_existing_results(path)
            after == results_files'[path]
            duplicate == find_duplicate(call'.result, before)
        IN  /\ \/ after = Append(before, call'.result)
               \/ /\ duplicate # NoIndex
                  /\ Len(after) = Len(before)
                  /\ after[duplicate + 1] = call'.result
                  /\ \A k \in DOMAIN before : k # duplicate + 1 => after[k] = before[k]
            /\ Len(after) >= Len(before)
            /\ \A other \in DOMAIN results_files :
                other # path => results_files'[other] = results_files[other]
            /\ DOMAIN results_files' = DOMAIN results_files \cup {path}]_vars

\* an unforced call put run2 in the place of run1, before run5
C26_Witness ==
    /\ calls = 3
    /\ ~call.force
    /\ call.result.run_id = "run2"
    /\ returned = CallPath
    /\ Len(results_files[CallPath]) = 2
    /\ results_files[CallPath][1] = call.result
    /\ results_files[CallPath][2].run_id = "run5"

-----------------------------------------------------------------------------
(* load_all_results and deduplicate_results (build_results.py, lines
   107-191), run on a results directory as save_eval_results leaves it: one
   file a model. A timestamp is the string datetime.isoformat() gives, a
   sequence of characters; an accuracy is counted in hundredths. *)

MaxStored == 2

\* the characters of timestamps and paths, in the order of ord(c)
CharOrder ==
    <<"+", "-", ".", "/", "0", "1", "2", "3", "4", "5", "6", "7", "8", "9", ":",
      "T", "_", "a", "b", "c", "d", "e", "f", "g", "h", "i", "j", "k", "l", "m",
      "n", "o", "p", "q", "r", "s", "t", "u", "v", "w", "x", "y", "z">>

\* the rank of ord(c) among them
CharCode(c) == CHOOSE k \in DOMAIN CharOrder : CharOrder[k] = c

\* a <= b for two str values: the first differing character decides
RECURSIVE StrLE(_, _)
StrLE(a, b) ==
    IF a = <<>> THEN TRUE
    ELSE IF b = <<>> THEN FALSE
    ELSE IF Head(a) = Head(b) THEN StrLE(Tail(a), Tail(b))
    ELSE CharCode(Head(a)) < CharCode(Head(b))

\* variant: a run without samples counts as complete
is_complete_run_any_total(entry) ==
    entry.samples.completed = entry.samples.total

\* total > 0 and completed == total
is_complete_run(entry) ==
    entry.samples.total > 0 /\ entry.samples.completed = entry.samples.total

\* json.dumps(model_args, sort_keys=True) if model_args else ""
ArgsStr(model_args) ==
    IF DOMAIN model_args = {} THEN ""
    ELSE "{\"reasoning_tokens\": 1024}"

\* f"{model}|{args_str}"
create_result_key(entry) == entry.model \o "|" \o ArgsStr(entry.model_args)

\* the key of max(): (completed, timestamp), compared as tuples
BestKeyLE(a, b) ==
    \/ a.samples.completed < b.samples.completed
    \/ a.samples.completed = b.samples.completed /\ StrLE(a.timestamp, b.timestamp)

\* max(results, key=...): the first of the entries no other entry exceeds
get_best_result(results) ==
    LET tops == {i \in DOMAIN results : \A j \in DOMAIN results : BestKeyLE(results[j], results[i])}
    IN  results[Min(tops)]

\* the keys of the groups dict, in the order they were first seen
RECURSIVE GroupKeys(_)
GroupKeys(results) ==
    IF results = <<>> THEN <<>>
    ELSE LET front == GroupKeys(SubSeq(results, 1, Len(results) - 1))
             key == create_result_key(results[Len(results)])
         IN  IF key \in Range(front) THEN front ELSE Append(front, key)

\* list.sort(key=accuracy, reverse=True): descending, equal entries keep
\* their order
RECURSIVE sort_by_accuracy(_)
sort_by_accuracy(entries) ==
    IF entries = <<>> THEN <<>>
    ELSE LET front == sort_by_accuracy(SubSeq(entries, 1, Len(entries) - 1))
             last == entries[Len(entries)]
             keep == {i \in DOMAIN front : front[i].accuracy >= last.accuracy}
             at == IF keep = {} THEN 0 ELSE Max(keep)
         IN  SubSeq(front, 1, at) \o <<last>> \o SubSeq(front, at + 1, Len(front))

deduplicate_results(results) ==
    LET keys == GroupKeys(results)
        Group(key) ==
            LET Same(entry) == create_result_key(entry) = key IN SelectSeq(results, Same)
    IN  sort_by_accuracy([k \in DOMAIN keys |-> get_best_result(Group(keys[k]))])

\* the timestamps of the stored runs: 10:00 and 11:00 UTC, and 11:00 at
\* UTC+2, which is 09:00 UTC
TimeA == <<"2", "0", "2", "5", "-", "0", "3", "-", "0", "1", "T", "1", "0", ":", "0", "0", ":", "0", "0", "+", "0", "0", ":", "0", "0">>
TimeB == <<"2", "0", "2", "5", "-", "0", "3", "-", "0", "1", "T", "1", "1", ":", "0", "0", ":", "0", "0", "+", "0", "0", ":", "0", "0">>
TimeC == <<"2", "0", "2", "5", "-", "0", "3", "-", "0", "1", "T", "1", "1", ":", "0", "0", ":", "0", "0", "+", "0", "2", ":", "0", "0">>
Timestamps == {TimeA, TimeB, TimeC}

StoredEntries ==
    {[model |-> m, model_args |-> a, samples |-> [total |-> n[1], completed |-> n[2]],
      timestamp |-> t, accuracy |-> acc] :
        m \in {"anthropic/claude", "openai/gpt"},
        a \in {BaseResult.model_args},
        n \in {<<2, 2>>, <<3, 3>>, <<2, 1>>, <<0, 0>>},
        t \in Timestamps,
        acc \in {50, 75}}
    \cup
    {[model |-> "anthropic/claude",
      model_args |-> [k \in {"reasoning_tokens"} |-> 1024],
      samples |-> [total |-> 2, completed |-> 2],
      timestamp |-> t, accuracy |-> 75] : t \in Timestamps}

\* the directory that holds the given entries, each in the file of its model
DirectoryOf(entries) ==
    LET paths == {get_model_results_path(entries[i].model) : i \in DOMAIN entries}
    IN  [path \in paths |->
            LET Here(entry) == get_model_results_path(entry.model) = path
            IN  SelectSeq(entries, Here)]

Directories ==
    {DirectoryOf(entries) : entries \in UNION {[1..n -> StoredEntries] : n \in 0..MaxStored}}

\* the files in one of the orders glob may give them
RECURSIVE GlobOrders(_)
GlobOrders(paths) ==
    IF paths = {} THEN {<<>>}
    ELSE UNION {{<<path>> \o order : order \in GlobOrders(paths \ {path})} : path \in paths}

InitBuild ==
    /\ pc = "load"
    /\ results_files \in Directories
    /\ all_results = <<>>
    /\ deduplicated = <<>>
    /\ call = <<>> /\ returned = None /\ calls = 0 /\ forced_only = TRUE
    /\ ExtractIdle /\ LenIdle /\ MetaIdle /\ CombineIdle /\ ScoreIdle /\ DupIdle
    /\ IdIdle

\* lines 142-165
LoadAllResults ==
    /\ pc = "load"
    /\ \E order \in GlobOrders(DOMAIN results_files) :
        all_results' =
            SelectSeq(Concat([k \in DOMAIN order |-> results_files[order[k]]]),
                      is_complete_run)
    /\ pc' = "loaded"
    /\ UNCHANGED <<results_files, call, returned, calls, forced_only, deduplicated,
                   extractVars, lenVars, metaVars, combineVars, scoreVars, dupVars,
                   idVars>>

\* line 205
DeduplicateResults ==
    /\ pc = "loaded"
    /\ deduplicated' = deduplicate_results(all_results)
    /\ pc' = "deduplicated"
    /\ UNCHANGED <<results_files, call, returned, calls, forced_only, all_results,
                   extractVars, lenVars, metaVars, combineVars, scoreVars, dupVars,
                   idVars>>

NextBuild == LoadAllResults \/ DeduplicateResults

SpecBuild == InitBuild /\ [][NextBuild]_vars

\* the instant of a timestamp, in minutes of that day, UTC
InstantOf(t) ==
    CASE t = TimeA -> 600
      [] t = TimeB -> 660
      [] t = TimeC -> 540

\* the entries stored in the directory
StoredSet == UNION {Range(results_files[path]) : path \in DOMAIN results_files}

\* C22: deduplicate_results returns one result for every model+model_args
\* pair of its input and no other: the one with the most completed samples
\* and, among those, the most recent timestamp; the list it returns is in
\* descending order of accuracy.
C22_BestPerKeySorted ==
    pc = "deduplicated" =>
        LET PairOf(r) == <<r.model, r.model_args>>
            pairs == {PairOf(all_results[i]) : i \in DOMAIN all_results}
        IN  /\ {PairOf(deduplicated[i]) : i \in DOMAIN deduplicated} = pairs
            /\ Len(deduplicated) = Cardinality(pairs)
            /\ \A i \in DOMAIN deduplicated :
                /\ deduplicated[i] \in Range(all_results)
                /\ \A j \in DOMAIN all_results :
                    PairOf(all_results[j]) = PairOf(deduplicated[i]) =>
                        \/ all_results[j].samples.completed
                                < deduplicated[i].samples.completed
                        \/ /\ all_results[j].samples.completed
                                = deduplicated[i].samples.completed
                           /\ InstantOf(all_results[j].timestamp)
                                <= InstantOf(deduplicated[i].timestamp)
            /\ \A i \in 1..(Len(deduplicated) - 1) :
                deduplicated[i].accuracy >= deduplicated[i + 1].accuracy

-----------------------------------------------------------------------------
(* The sample ids of load_crossword_samples (cryptic_crossword_eval.py,
   lines 51-125) and extract_dataset_files (save_results.py, lines 104-120).
   Ids, stems and paths are sequences of characters. *)

MaxFiles == 2

AcrossMark == <<"_", "a", "c", "r", "o", "s", "s", "_">>
DownMark == <<"_", "d", "o", "w", "n", "_">>

\* s.split(sep)[0]: s up to the first occurrence of sep
split_first(s, sep) ==
    LET at == {i \in 1..(Len(s) - Len(sep) + 1) : SubSeq(s, i, i + Len(sep) - 1) = sep}
    IN  IF at = {} THEN s ELSE SubSeq(s, 1, Min(at) - 1)

\* f"data/benchmark/{base_name}.json"
BenchmarkPath(base_name) == <<"d", "a", "t", "a", "/", "b", "e", "n", "c", "h", "m", "a", "r", "k", "/">> \o base_name \o <<".", "j", "s", "o", "n">>

\* the Sample of lines 78-91 and 110-123
SampleOf(stem, mark, clue_num) ==
    [id |-> stem \o mark \o clue_num,
     metadata |-> [clue_number |-> clue_num, puzzle_name |-> "Unknown"]]

\* the samples of one benchmark file: the across clues, then the down clues
load_crossword_samples(file) ==
    [k \in DOMAIN file.across |-> SampleOf(file.stem, AcrossMark, file.across[k])]
    \o [k \in DOMAIN file.down |-> SampleOf(file.stem, DownMark, file.down[k])]

\* sorted(S) for a set of str
RECURSIVE sorted_strs(_)
sorted_strs(S) ==
    IF S = {} THEN <<>>
    ELSE LET least == CHOOSE x \in S : \A y \in S : StrLE(x, y)
         IN  <<least>> \o sorted_strs(S \ {least})

\* sample_id.split("_across_")[0].split("_down_")[0]
BaseName(sample_id) == split_first(split_first(sample_id, AcrossMark), DownMark)

extract_dataset_files(log_samples) ==
    LET Named(k) ==
            /\ DOMAIN log_samples[k].metadata # {}
            /\ "puzzle_name" \in DOMAIN log_samples[k].metadata
            /\ Contains(log_samples[k].id, AcrossMark) \/ Contains(log_samples[k].id, DownMark)
    IN  sorted_strs({BenchmarkPath(BaseName(log_samples[k].id)) :
                        k \in {j \in DOMAIN log_samples : Named(j)}})

\* benchmark files: a stem, the across clue numbers and the down clue numbers
Stems == {<<"t", "i", "m", "e", "s", "_", "1">>, <<"t", "i", "m", "e", "s", "_", "2">>, <<"u", "p", "_", "d", "o", "w", "n", "_", "1">>, <<"c", "u", "t", "_", "a", "c", "r", "o", "s", "s", "_", "2">>}
BenchmarkFiles ==
    {[stem |-> st, across |-> ac, down |-> dn] :
        st \in Stems,
        ac \in {<<>>, << <<"1">> >>, << <<"1">>, <<"1", "2">> >>},
        dn \in {<<>>, << <<"5">> >>}}

InitIds ==
    /\ pc = "samples"
    /\ benchmark_files \in UNION {[1..n -> BenchmarkFiles] : n \in 1..MaxFiles}
    /\ samples = Concat([k \in DOMAIN benchmark_files |->
                            load_crossword_samples(benchmark_files[k])])
    /\ dataset_files = <<>>
    /\ ExtractIdle /\ LenIdle /\ MetaIdle /\ CombineIdle /\ ScoreIdle /\ DupIdle
    /\ SaveIdle /\ BuildIdle

\* line 172: dataset_files = extract_dataset_files(log)
ExtractDatasetFiles ==
    /\ pc = "samples"
    /\ dataset_files' = extract_dataset_files(samples)
    /\ pc' = "extracted"
    /\ UNCHANGED <<benchmark_files, samples, extractVars, lenVars, metaVars,
                   combineVars, scoreVars, dupVars, saveVars, buildVars>>

NextIds == ExtractDatasetFiles

SpecIds == InitIds /\ [][NextIds]_vars

\* C24: the sample ids round-trip to their benchmark files: for every
\* benchmark file with a clue, across or down, extract_dataset_files gives
\* data/benchmark/<stem>.json, and it gives nothing else.
C24_SampleIdRoundTrip ==
    pc = "extracted" =>
        Range(dataset_files) =
            {BenchmarkPath(benchmark_files[k].stem) :
                k \in {j \in DOMAIN benchmark_files :
                        benchmark_files[j].across # <<>> \/ benchmark_files[j].down # <<>>}}

-----------------------------------------------------------------------------
(* Clue numbers per direction (extract_clues.py, lines 85-113). *)

\* the numbers of the clues the pattern finds in a column text
NumbersIn(text) ==
    {DigitsValue(finditer(text)[k].group1) : k \in DOMAIN finditer(text)}

\* every record of the map is the record of a match of that number in text
RecordsFrom(clues, text) ==
    \A n \in DOMAIN clues :
        \E k \in DOMAIN finditer(text) :
            /\ DigitsValue(finditer(text)[k].group1) = n
            /\ IsRecordOf(clues[n], finditer(text)[k])

\* C27: clue numbers are keyed per direction: when the tokenizer returns, the
\* across map holds exactly the numbers found in the left column text and the
\* down map exactly those found in the right column text, each record is the
\* record of a match of its own column, and a number found in both columns
\* has a record in each map, neither replacing the other.
C27_KeyedPerDirection ==
    pc = "done" =>
        /\ DOMAIN across_clues = NumbersIn(across_text)
        /\ DOMAIN down_clues = NumbersIn(down_text)
        /\ RecordsFrom(across_clues, across_text)
        /\ RecordsFrom(down_clues, down_text)
        /\ \A n \in NumbersIn(across_text) \cap NumbersIn(down_text) :
            n \in DOMAIN across_clues /\ n \in DOMAIN down_clues

\* the same number heads a clue in each column, with different records
C27_Witness ==
    /\ pc = "done"
    /\ 5 \in DOMAIN across_clues \cap DOMAIN down_clues
    /\ across_clues[5] # down_clues[5]
    /\ RecordsFrom(across_clues, across_text)
    /\ RecordsFrom(down_clues, down_text)

====
